---------------------------- MODULE Spec2Model ----------------------------
(***************************************************************************)
(* Header::parse of fsbex (src/header/mod.rs): the FSB5 container header,  *)
(* the per-stream 64-bit bitfield headers, the per-stream chunk lists and  *)
(* the name table, parsed in one forward pass over a byte cursor.          *)
(*                                                                         *)
(* The input is a sequence of bytes.  One action per step of the parse;    *)
(* the parse of one input is one behaviour, ending in pc = "done" with     *)
(* result an Ok header, an error, or a panic.                              *)
(*                                                                         *)
(* Numbers: TLC integers are 32-bit signed.  A u32 read from the input is  *)
(* an Int (inputs keep such values below 2^31); the 64-bit stream word     *)
(* and the 32-bit chunk flag word are decoded from their bits; a u32       *)
(* difference that may wrap is kept as two 16-bit limbs <<hi, lo>>.        *)
(***************************************************************************)
EXTENDS Integers, Sequences, FiniteSets, TLC

VARIABLES
    data,                \* the bytes behind the Reader
    pos,                 \* Reader::position()
    pc,                  \* the step of Header::parse about to run
    version,             \* "V0" | "V1" | "none"
    num_streams,
    stream_headers_size,
    name_table_size,
    total_stream_size,
    codec,
    index,               \* loop variable of the stream loop / name-offset loop
    stream_header,       \* the StreamHeader being built (parse_stream_headers)
    stream_headers,      \* Vec<StreamHeader>
    chunk_index,         \* loop variable of parse_stream_chunks
    chunk,               \* the StreamChunk of the current iteration
    start_position,      \* reader.position() after the flag word
    stream_info,         \* Vec<StreamInfo>
    name_offsets,        \* Vec<u32>
    flags_read,          \* history: per stream, the flag words read so far
    result,              \* the value Header::parse returns
    encoded              \* what encode did with a stream of the Header

vars == <<data, pos, pc, version, num_streams, stream_headers_size,
          name_table_size, total_stream_size, codec, index, stream_header,
          stream_headers, chunk_index, chunk, start_position, stream_info,
          name_offsets, flags_read, result, encoded>>

--------------------------------------------------------------------------
(* Bounds of the model                                                     *)

MaxStreams == 2        \* streams of the generated containers
MaxChunks == 2         \* chunks of a generated chunk list
MaxOffsetUnit == 2     \* data offsets 0..MaxOffsetUnit, in 32-byte units
MaxNameLen == 3        \* bytes of a generated name, the NUL included

--------------------------------------------------------------------------
(* Little-endian bytes and bits                                            *)

Pow2(n) == 2 ^ n

\* u32::from_le_bytes, for values below 2^31
LeU32(b) == b[1] + 256 * b[2] + 65536 * b[3] + 16777216 * b[4]

\* the bits of a little-endian integer, least significant first
RECURSIVE LeBits(_)
LeBits(b) ==
    IF b = <<>> THEN <<>>
    ELSE [i \in 1..8 |-> (Head(b) \div Pow2(i - 1)) % 2] \o LeBits(Tail(b))

\* the bitfield of `width` bits whose lowest bit is bit `lo` (bilge accessors)
RECURSIVE BitField(_, _, _)
BitField(bits, lo, width) ==
    IF width = 0 THEN 0
    ELSE bits[lo + 1] + 2 * BitField(bits, lo + 1, width - 1)

--------------------------------------------------------------------------
(* The byte cursor (crate::read::Reader)                                   *)

Remaining == Len(data) - pos

\* a fixed-width read of n bytes succeeds iff n bytes are left
CanRead(n) == n <= Remaining

\* the n bytes the next read returns
Peek(n) == SubSeq(data, pos + 1, pos + n)

\* advance_to(target): forward only, and only as far as the input goes
CanAdvanceTo(target) == pos <= target /\ target <= Len(data)

\* the positions a failed advance_to(target) may leave the cursor at: where it
\* was, or the end of the input when the skip consumed what was left
FailedAdvancePositions(target) ==
    IF pos <= target THEN {pos, Len(data)} ELSE {pos}

--------------------------------------------------------------------------
(* Errors (header/error.rs kinds)                                          *)

HeaderError(kind) == [tag |-> "Err", family |-> "Header", kind |-> kind]

StreamError(stream, kind) ==
    [tag |-> "Err", family |-> "Stream", stream |-> stream, kind |-> kind]

\* ChunkError::into_stream_err(stream) lifted into the header error
ChunkError(stream, chunk_idx, kind) ==
    [tag |-> "Err", family |-> "Chunk", stream |-> stream,
     chunk |-> chunk_idx, kind |-> kind]

NameError(stream, kind) ==
    [tag |-> "Err", family |-> "Name", stream |-> stream, kind |-> kind]

K(name) == [name |-> name]

Panic == [tag |-> "Panic"]

\* the process aborts: the allocator could not serve a request
Abort == [tag |-> "Abort"]

NoResult == [tag |-> "none"]

--------------------------------------------------------------------------
(* Enumeration decoders                                                    *)

FSB5_MAGIC == <<70, 83, 66, 53>>

\* TryFrom<u32> for Version
VersionTryFrom(value) ==
    CASE value = 0 -> [ok |-> TRUE, v |-> "V0"]
      [] value = 1 -> [ok |-> TRUE, v |-> "V1"]
      [] OTHER -> [ok |-> FALSE,
                   err |-> HeaderError([name |-> "UnknownVersion", version |-> value])]

\* mutant: the lower bound of the known codes off by one
CodecTryFromLax(value) ==
    IF value \in 0..17
    THEN [ok |-> TRUE, v |-> value]
    ELSE [ok |-> FALSE,
          err |-> HeaderError([name |-> "UnknownCodec", flag |-> value])]

\* TryFrom<u32> for Codec
CodecTryFrom(value) ==
    IF value \in 1..17
    THEN [ok |-> TRUE, v |-> value]
    ELSE [ok |-> FALSE,
          err |-> HeaderError([name |-> "UnknownCodec", flag |-> value])]

\* mutant: the two base header sizes exchanged
BaseHeaderSizeSwapped(v) == IF v = "V0" THEN 60 ELSE 64

\* base_header_size of Header::parse
BaseHeaderSize(v) == IF v = "V0" THEN 64 ELSE 60


--------------------------------------------------------------------------
(* Option, and u32 / u8 / i16 arithmetic at its width                      *)

None == <<>>
Some(x) == <<x>>

\* a u32 as two 16-bit limbs <<hi, lo>>
Limbs(n) == <<n \div 65536, n % 65536>>

LimbsZero(l) == l[1] = 0 /\ l[2] = 0

\* a - b on u32 where the subtraction wraps (release build)
WrappingSubU32(a, b) ==
    IF a >= b THEN Limbs(a - b)
    ELSE LET m == b - a - 1
         IN <<65535 - (m \div 65536), 65535 - (m % 65536)>>

\* i16::from_be_bytes
BeI16(b1, b2) ==
    LET u == 256 * b1 + b2 IN IF u >= 32768 THEN u - 65536 ELSE u

WrapI16(x) == ((x + 32768) % 65536) - 32768

\* the DspCoefficients loops over the bytes left in the input: for each
\* channel sixteen be_i16 values are read and added one by one (coeff += ..),
\* then 14 bytes are skipped. `read` counts the bytes consumed so far, k the
\* value to read next (17: the skip), acc the running sum. A short read or
\* skip consumes nothing and is the error; an addition that leaves i16
\* panics under overflow checks as soon as its value has been read.
RECURSIVE DspCoeffs(_, _, _, _, _, _, _)
DspCoeffs(bytes, channels, k, acc, coeffs, read, overflow_checks) ==
    IF channels = 0 THEN [tag |-> "Ok", coeffs |-> coeffs, read |-> read]
    ELSE IF k = 17
    THEN IF Len(bytes) - read < 14 THEN [tag |-> "Err", read |-> read]
         ELSE DspCoeffs(bytes, channels - 1, 1, 0, Append(coeffs, acc),
                        read + 14, overflow_checks)
    ELSE IF Len(bytes) - read < 2 THEN [tag |-> "Err", read |-> read]
    ELSE LET x == acc + BeI16(bytes[read + 1], bytes[read + 2])
         IN IF overflow_checks /\ (x < -32768 \/ x > 32767)
            THEN [tag |-> "Panic", read |-> read + 2]
            ELSE DspCoeffs(bytes, channels, k + 1, WrapI16(x), coeffs,
                           read + 2, overflow_checks)

--------------------------------------------------------------------------
(* Stream bitfield unpacker                                                *)

\* mutant: code 2 mapped to 11025 and code 10 not known
SampleRateOfTypo(flag) ==
    CASE flag = 0 -> 4000
      [] flag = 1 -> 8000
      [] flag = 2 -> 11025
      [] flag = 3 -> 11025
      [] flag = 4 -> 16000
      [] flag = 5 -> 22050
      [] flag = 6 -> 24000
      [] flag = 7 -> 32000
      [] flag = 8 -> 44100
      [] flag = 9 -> 48000
      [] OTHER -> 0

\* the sample-rate match of RawStreamHeader::parse; 0 for an unknown code
SampleRateOf(flag) ==
    CASE flag = 0 -> 4000
      [] flag = 1 -> 8000
      [] flag = 2 -> 11000
      [] flag = 3 -> 11025
      [] flag = 4 -> 16000
      [] flag = 5 -> 22050
      [] flag = 6 -> 24000
      [] flag = 7 -> 32000
      [] flag = 8 -> 44100
      [] flag = 9 -> 48000
      [] flag = 10 -> 96000
      [] OTHER -> 0

\* the channels match of RawStreamHeader::parse
ChannelsOf(flag) ==
    CASE flag = 0 -> 1
      [] flag = 1 -> 2
      [] flag = 2 -> 6
      [] flag = 3 -> 8

\* RawStreamHeader::from(n).parse(stream_index), n given by its 64 bits
RawStreamHeaderParse(bits, stream_index) ==
    LET has_chunks == BitField(bits, 0, 1) = 1
        sample_rate == BitField(bits, 1, 4)
        channels == BitField(bits, 5, 2)
        data_offset == BitField(bits, 7, 27)
        num_samples == BitField(bits, 34, 30)
    IN  IF SampleRateOf(sample_rate) = 0
        THEN [ok |-> FALSE,
              err |-> StreamError(stream_index,
                        [name |-> "UnknownSampleRate", flag |-> sample_rate])]
        ELSE IF num_samples = 0
        THEN [ok |-> FALSE, err |-> StreamError(stream_index, K("ZeroSamples"))]
        ELSE [ok |-> TRUE,
              v |-> [has_chunks |-> has_chunks,
                     sample_rate |-> SampleRateOf(sample_rate),
                     channels |-> ChannelsOf(channels),
                     data_offset |-> data_offset * 32,
                     num_samples |-> num_samples,
                     stream_loop |-> None,
                     dsp_coeffs |-> None]]

--------------------------------------------------------------------------
(* Chunk flag word                                                         *)

\* mutant: the kinds from XmaSeekTable on numbered without the gaps
StreamChunkKindOfDense(flag) ==
    CASE flag = 1 -> "Channels"
      [] flag = 2 -> "SampleRate"
      [] flag = 3 -> "Loop"
      [] flag = 4 -> "Comment"
      [] flag = 5 -> "XmaSeekTable"
      [] flag = 6 -> "DspCoefficients"
      [] flag = 7 -> "Atrac9Config"
      [] flag = 8 -> "XwmaConfig"
      [] flag = 9 -> "VorbisSeekTable"
      [] flag = 10 -> "PeakVolume"
      [] flag = 11 -> "VorbisIntraLayers"
      [] flag = 12 -> "OpusDataSize"
      [] OTHER -> "Unknown"

\* the kind match of RawStreamChunk::parse; "Unknown" for an unknown code
StreamChunkKindOf(flag) ==
    CASE flag = 1 -> "Channels"
      [] flag = 2 -> "SampleRate"
      [] flag = 3 -> "Loop"
      [] flag = 4 -> "Comment"
      [] flag = 6 -> "XmaSeekTable"
      [] flag = 7 -> "DspCoefficients"
      [] flag = 9 -> "Atrac9Config"
      [] flag = 10 -> "XwmaConfig"
      [] flag = 11 -> "VorbisSeekTable"
      [] flag = 13 -> "PeakVolume"
      [] flag = 14 -> "VorbisIntraLayers"
      [] flag = 15 -> "OpusDataSize"
      [] OTHER -> "Unknown"

\* RawStreamChunk::from(n).parse(chunk_index), n given by its 32 bits; the
\* error is the ChunkErrorKind, lifted by the caller
RawStreamChunkParse(bits, chunk_idx) ==
    LET more_chunks == BitField(bits, 0, 1) = 1
        size == BitField(bits, 1, 24)
        kind == BitField(bits, 25, 7)
    IN  IF StreamChunkKindOf(kind) = "Unknown"
        THEN [ok |-> FALSE, index |-> chunk_idx,
              kind |-> [name |-> "UnknownType", flag |-> kind]]
        ELSE [ok |-> TRUE,
              v |-> [more_chunks |-> more_chunks, size |-> size,
                     kind |-> StreamChunkKindOf(kind)]]

\* Loop::parse(index, start, end): len = end - start on u32
LoopParse(start, end, overflow_checks) ==
    IF end < start /\ overflow_checks THEN [ok |-> FALSE, panic |-> TRUE]
    ELSE IF LimbsZero(WrappingSubU32(end, start))
    THEN [ok |-> FALSE, panic |-> FALSE, kind |-> K("ZeroLengthLoop")]
    ELSE [ok |-> TRUE, v |-> [start |-> start, len |-> WrappingSubU32(end, start)]]

\* StreamHeader::with_stream_size
WithStreamSize(h, size) ==
    [sample_rate |-> h.sample_rate,
     channels |-> h.channels,
     num_samples |-> h.num_samples,
     stream_loop |-> h.stream_loop,
     dsp_coeffs |-> h.dsp_coeffs,
     size |-> size,
     name |-> None]

\* the second loop of parse_stream_headers from window i (1-based) on:
\* size = offsets[i+1] - offsets[i] on u32, zero rejected
RECURSIVE StreamSizes(_, _, _, _, _)
StreamSizes(offsets, headers, i, acc, overflow_checks) ==
    IF i > Len(headers) THEN [tag |-> "Ok", v |-> acc]
    ELSE IF offsets[i + 1] < offsets[i] /\ overflow_checks THEN Panic
    ELSE LET size == WrappingSubU32(offsets[i + 1], offsets[i])
         IN IF LimbsZero(size)
            THEN HeaderError([name |-> "ZeroStreamSize", index |-> i - 1])
            ELSE StreamSizes(offsets, headers, i + 1,
                             Append(acc, WithStreamSize(headers[i], size)),
                             overflow_checks)

--------------------------------------------------------------------------
(* Names: CStr::from_bytes_with_nul and str::from_utf8                     *)

\* exactly one NUL, and it is the last byte
CStrFromBytesWithNul(bytes) ==
    /\ Len(bytes) >= 1
    /\ bytes[Len(bytes)] = 0
    /\ \A i \in 1..(Len(bytes) - 1) : bytes[i] # 0

IsCont(b) == b \in 128..191

\* std's UTF-8 validation (well-formed sequences of Unicode table 3-7)
RECURSIVE Utf8Valid(_)
Utf8Valid(b) ==
    IF b = <<>> THEN TRUE
    ELSE LET n == Len(b)
             c == b[1]
         IN CASE c \in 0..127 -> Utf8Valid(Tail(b))
              [] c \in 194..223 ->
                    n >= 2 /\ IsCont(b[2]) /\ Utf8Valid(SubSeq(b, 3, n))
              [] c \in 224..239 ->
                    /\ n >= 3
                    /\ IF c = 224 THEN b[2] \in 160..191
                       ELSE IF c = 237 THEN b[2] \in 128..159
                       ELSE IsCont(b[2])
                    /\ IsCont(b[3])
                    /\ Utf8Valid(SubSeq(b, 4, n))
              [] c \in 240..244 ->
                    /\ n >= 4
                    /\ IF c = 240 THEN b[2] \in 144..191
                       ELSE IF c = 244 THEN b[2] \in 128..143
                       ELSE IsCont(b[2])
                    /\ IsCont(b[3])
                    /\ IsCont(b[4])
                    /\ Utf8Valid(SubSeq(b, 5, n))
              [] OTHER -> FALSE

--------------------------------------------------------------------------
(* Header::parse, step by step                                             *)

header_fields == <<version, num_streams, stream_headers_size,
                   name_table_size, total_stream_size, codec>>
stream_state == <<index, stream_header, stream_headers>>
chunk_state == <<chunk_index, chunk, start_position, flags_read>>
name_state == <<stream_info, name_offsets>>

\* return r from Header::parse
Return(r) == result' = r /\ pc' = "done"

\* the Header of Ok(Self { .. })
OkHeader(infos) ==
    [tag |-> "Ok", num_streams |-> num_streams, codec |-> codec,
     stream_info |-> infos]

\* reader.take() compared with FSB5_MAGIC
ReadMagic ==
    /\ pc = "magic"
    /\ IF CanRead(4) /\ Peek(4) = FSB5_MAGIC
       THEN pos' = pos + 4 /\ pc' = "version" /\ UNCHANGED result
       ELSE /\ Return(HeaderError(K("Magic")))
            /\ pos' = IF CanRead(4) THEN pos + 4 ELSE pos
    /\ UNCHANGED <<data, encoded, header_fields, stream_state, chunk_state, name_state>>

ReadVersion ==
    /\ pc = "version"
    /\ IF ~CanRead(4)
       THEN Return(HeaderError(K("Version"))) /\ UNCHANGED <<pos, version>>
       ELSE LET r == VersionTryFrom(LeU32(Peek(4)))
            IN IF r.ok
               THEN /\ version' = r.v
                    /\ pos' = pos + 4
                    /\ pc' = "stream_count"
                    /\ UNCHANGED result
               ELSE Return(r.err) /\ pos' = pos + 4 /\ UNCHANGED version
    /\ UNCHANGED <<data, encoded, num_streams, stream_headers_size, name_table_size,
                   total_stream_size, codec, stream_state, chunk_state,
                   name_state>>

ReadStreamCount ==
    /\ pc = "stream_count"
    /\ IF ~CanRead(4)
       THEN Return(HeaderError(K("StreamCount"))) /\ UNCHANGED <<pos, num_streams>>
       ELSE IF LeU32(Peek(4)) = 0
       THEN /\ Return(HeaderError(K("ZeroStreams")))
            /\ pos' = pos + 4
            /\ UNCHANGED num_streams
       ELSE /\ num_streams' = LeU32(Peek(4))
            /\ pos' = pos + 4
            /\ pc' = "stream_headers_size"
            /\ UNCHANGED result
    /\ UNCHANGED <<data, encoded, version, stream_headers_size, name_table_size,
                   total_stream_size, codec, stream_state, chunk_state,
                   name_state>>

ReadStreamHeadersSize ==
    /\ pc = "stream_headers_size"
    /\ IF ~CanRead(4)
       THEN /\ Return(HeaderError(K("StreamHeadersSize")))
            /\ UNCHANGED <<pos, stream_headers_size>>
       ELSE /\ stream_headers_size' = LeU32(Peek(4))
            /\ pos' = pos + 4
            /\ pc' = "name_table_size"
            /\ UNCHANGED result
    /\ UNCHANGED <<data, encoded, version, num_streams, name_table_size,
                   total_stream_size, codec, stream_state, chunk_state,
                   name_state>>

ReadNameTableSize ==
    /\ pc = "name_table_size"
    /\ IF ~CanRead(4)
       THEN /\ Return(HeaderError(K("NameTableSize")))
            /\ UNCHANGED <<pos, name_table_size>>
       ELSE /\ name_table_size' = LeU32(Peek(4))
            /\ pos' = pos + 4
            /\ pc' = "total_stream_size"
            /\ UNCHANGED result
    /\ UNCHANGED <<data, encoded, version, num_streams, stream_headers_size,
                   total_stream_size, codec, stream_state, chunk_state,
                   name_state>>

ReadTotalStreamSize ==
    /\ pc = "total_stream_size"
    /\ IF ~CanRead(4)
       THEN /\ Return(HeaderError(K("TotalStreamSize")))
            /\ UNCHANGED <<pos, total_stream_size>>
       ELSE IF LeU32(Peek(4)) = 0
       THEN /\ Return(HeaderError(K("ZeroTotalStreamSize")))
            /\ pos' = pos + 4
            /\ UNCHANGED total_stream_size
       ELSE /\ total_stream_size' = LeU32(Peek(4))
            /\ pos' = pos + 4
            /\ pc' = "codec"
            /\ UNCHANGED result
    /\ UNCHANGED <<data, encoded, version, num_streams, stream_headers_size,
                   name_table_size, codec, stream_state, chunk_state,
                   name_state>>

ReadCodec ==
    /\ pc = "codec"
    /\ IF ~CanRead(4)
       THEN Return(HeaderError(K("Codec"))) /\ UNCHANGED <<pos, codec>>
       ELSE LET r == CodecTryFrom(LeU32(Peek(4)))
            IN IF r.ok
               THEN /\ codec' = r.v
                    /\ pos' = pos + 4
                    /\ pc' = "metadata"
                    /\ UNCHANGED result
               ELSE Return(r.err) /\ pos' = pos + 4 /\ UNCHANGED codec
    /\ UNCHANGED <<data, encoded, version, num_streams, stream_headers_size,
                   name_table_size, total_stream_size, stream_state,
                   chunk_state, name_state>>

\* reader.advance_to(base_header_size)
AdvanceMetadata ==
    /\ pc = "metadata"
    /\ IF CanAdvanceTo(BaseHeaderSize(version))
       THEN /\ pos' = BaseHeaderSize(version)
            /\ pc' = "alloc_streams"
            /\ UNCHANGED result
       ELSE /\ Return(HeaderError(K("Metadata")))
            /\ pos' \in FailedAdvancePositions(BaseHeaderSize(version))
    /\ UNCHANGED <<data, encoded, header_fields, stream_state, chunk_state, name_state>>

--------------------------------------------------------------------------
(* parse_stream_headers: the stream loop                                   *)

\* Vec::with_capacity(capacity) of 40-byte StreamHeaders: whether the
\* allocator can serve it depends on the memory of the machine. Requests
\* below 2 GiB are taken to be served; a larger one is served or aborts
\* the process.
AllocMayFail(capacity) == capacity > 2147483647 \div 40

\* let mut stream_headers = Vec::with_capacity(num_streams_usize), on entry
\* to parse_stream_headers and before any stream word is read
AllocStreamHeaders ==
    /\ pc = "alloc_streams"
    /\ \/ pc' = "stream_header" /\ UNCHANGED result
       \/ AllocMayFail(num_streams) /\ Return(Abort)
    /\ UNCHANGED <<data, encoded, pos, header_fields, stream_state,
                   chunk_state, name_state>>

\* reader.le_u64(), RawStreamHeader::from(n).parse(index), and the branch
\* on stream_header.has_chunks
ReadStreamHeader ==
    /\ pc = "stream_header"
    /\ IF ~CanRead(8)
       THEN /\ Return(StreamError(index, K("StreamInfo")))
            /\ UNCHANGED <<pos, stream_header, chunk_index>>
       ELSE LET r == RawStreamHeaderParse(LeBits(Peek(8)), index)
            IN IF r.ok
               THEN /\ stream_header' = r.v
                    /\ pos' = pos + 8
                    /\ chunk_index' = 0
                    /\ pc' = IF r.v.has_chunks THEN "chunk_flag" ELSE "push_stream"
                    /\ UNCHANGED result
               ELSE /\ Return(r.err)
                    /\ pos' = pos + 8
                    /\ UNCHANGED <<stream_header, chunk_index>>
    /\ UNCHANGED <<data, encoded, header_fields, index, stream_headers, chunk,
                   start_position, flags_read, name_state>>

\* parse_stream_chunks: reader.le_u32(), RawStreamChunk::from(n).parse(index)
\* and start_position = reader.position()
ReadChunkFlag ==
    /\ pc = "chunk_flag"
    /\ IF ~CanRead(4)
       THEN /\ Return(ChunkError(index, chunk_index, K("Flag")))
            /\ UNCHANGED <<pos, chunk, start_position, flags_read>>
       ELSE LET bits == LeBits(Peek(4))
                r == RawStreamChunkParse(bits, chunk_index)
            IN /\ flags_read' = Append(flags_read,
                                   [stream |-> index, chunk |-> chunk_index,
                                    more |-> bits[1] = 1])
               /\ IF r.ok
                  THEN /\ chunk' = r.v
                       /\ pos' = pos + 4
                       /\ start_position' = pos + 4
                       /\ pc' = "chunk_payload"
                       /\ UNCHANGED result
                  ELSE /\ Return(ChunkError(index, r.index, r.kind))
                       /\ pos' = pos + 4
                       /\ UNCHANGED <<chunk, start_position>>
    /\ UNCHANGED <<data, encoded, header_fields, stream_state, chunk_index, name_state>>

\* the match on chunk.kind: what the arm does to the stream header, or the
\* error it returns, and how many bytes it has read by then
ChunkPayloadOutcome(overflow_checks) ==
    LET channels == stream_header.channels
        Err(kind, read) == [tag |-> "Err", kind |-> kind, read |-> read]
    IN CASE chunk.kind = "Channels" ->
              IF ~CanRead(1) THEN Err(K("ChannelCount"), 0)
              ELSE IF Peek(1)[1] = 0 THEN Err(K("ZeroChannels"), 1)
              ELSE [tag |-> "Ok", read |-> 1,
                    header |-> [stream_header EXCEPT !.channels = Peek(1)[1]]]
         [] chunk.kind = "SampleRate" ->
              IF ~CanRead(4) THEN Err(K("SampleRate"), 0)
              ELSE IF LeU32(Peek(4)) = 0 THEN Err(K("ZeroSampleRate"), 4)
              ELSE [tag |-> "Ok", read |-> 4,
                    header |-> [stream_header EXCEPT !.sample_rate = LeU32(Peek(4))]]
         [] chunk.kind = "Loop" ->
              IF ~CanRead(4) THEN Err(K("LoopStart"), 0)
              ELSE IF ~CanRead(8) THEN Err(K("LoopEnd"), 4)
              ELSE LET r == LoopParse(LeU32(SubSeq(Peek(8), 1, 4)),
                                      LeU32(SubSeq(Peek(8), 5, 8)),
                                      overflow_checks)
                   IN IF r.ok
                      THEN [tag |-> "Ok", read |-> 8,
                            header |-> [stream_header EXCEPT
                                          !.stream_loop = Some(r.v)]]
                      ELSE IF r.panic THEN [tag |-> "Panic", read |-> 8]
                      ELSE Err(r.kind, 8)
         [] chunk.kind = "DspCoefficients" ->
              LET r == DspCoeffs(SubSeq(data, pos + 1, Len(data)), channels,
                                 1, 0, <<>>, 0, overflow_checks)
              IN CASE r.tag = "Ok" ->
                        [tag |-> "Ok", read |-> r.read,
                         header |-> [stream_header EXCEPT
                                       !.dsp_coeffs = Some(r.coeffs)]]
                   [] r.tag = "Err" -> Err(K("DspCoefficients"), r.read)
                   [] OTHER -> r
         [] chunk.kind = "VorbisIntraLayers" ->
              IF ~CanRead(4) THEN Err(K("VorbisLayerCount"), 0)
              ELSE LET layers == LeU32(Peek(4))
                   IN IF layers > 255
                      THEN Err([name |-> "TooManyVorbisLayers",
                                layers |-> layers], 4)
                      ELSE IF channels * layers > 255 /\ overflow_checks
                      THEN [tag |-> "Panic", read |-> 4]
                      ELSE IF (channels * layers) % 256 = 0
                      THEN Err(K("ZeroVorbisLayers"), 4)
                      ELSE [tag |-> "Ok", read |-> 4,
                            header |-> [stream_header EXCEPT
                                          !.channels = (channels * layers) % 256]]
         [] OTHER -> [tag |-> "Ok", read |-> 0, header |-> stream_header]

\* the match arm of one chunk; overflow_checks is the build's arithmetic
\* (panic on overflow, or wrap)
ReadChunkPayload ==
    /\ pc = "chunk_payload"
    /\ \E overflow_checks \in BOOLEAN :
         LET o == ChunkPayloadOutcome(overflow_checks)
         IN /\ pos' = pos + o.read
            /\ CASE o.tag = "Ok" ->
                      /\ stream_header' = o.header
                      /\ pc' = "chunk_advance"
                      /\ UNCHANGED result
                 [] o.tag = "Err" ->
                      /\ Return(ChunkError(index, chunk_index, o.kind))
                      /\ UNCHANGED stream_header
                 [] OTHER ->
                      /\ Return(Panic)
                      /\ UNCHANGED stream_header
    /\ UNCHANGED <<data, encoded, header_fields, index, stream_headers, chunk_state,
                   name_state>>

\* mutant: the declared size taken to cover the flag word
ChunkEndFromFlag == start_position - 4 + chunk.size

\* start_position + chunk.size as usize
ChunkEnd == start_position + chunk.size

\* mutant: the loop left on a set more-bit
MoreChunksInverted == ~chunk.more_chunks

\* the loop goes on unless !chunk.more_chunks
MoreChunks == chunk.more_chunks

\* reader.advance_to(start_position + chunk.size), then the break on
\* !chunk.more_chunks
AdvanceChunk ==
    /\ pc = "chunk_advance"
    /\ LET target == ChunkEnd
       IN IF CanAdvanceTo(target)
          THEN /\ pos' = target
               /\ IF MoreChunks
                  THEN chunk_index' = chunk_index + 1 /\ pc' = "chunk_flag"
                  ELSE UNCHANGED chunk_index /\ pc' = "push_stream"
               /\ UNCHANGED result
          ELSE \E p \in FailedAdvancePositions(target) :
                 /\ pos' = p
                 /\ Return(ChunkError(index, chunk_index,
                             [name |-> "WrongChunkSize",
                              expected |-> chunk.size,
                              actual |-> p - start_position]))
                 /\ UNCHANGED chunk_index
    /\ UNCHANGED <<data, encoded, header_fields, stream_state, chunk, start_position,
                   flags_read, name_state>>

\* stream_offsets.push(..); stream_headers.push(..); next index
PushStream ==
    /\ pc = "push_stream"
    /\ stream_headers' = Append(stream_headers, stream_header)
    /\ index' = index + 1
    /\ pc' = IF index + 1 < num_streams THEN "stream_header" ELSE "sizes"
    /\ UNCHANGED <<data, encoded, pos, header_fields, stream_header, chunk_state,
                   name_state, result>>

\* stream_offsets of parse_stream_headers, total_stream_size pushed last
StreamOffsets ==
    [i \in 1..Len(stream_headers) |-> stream_headers[i].data_offset]
        \o <<total_stream_size>>

\* the second loop of parse_stream_headers
DeriveSizes ==
    /\ pc = "sizes"
    /\ \E overflow_checks \in BOOLEAN :
         LET r == StreamSizes(StreamOffsets, stream_headers, 1, <<>>,
                              overflow_checks)
         IN IF r.tag = "Ok"
            THEN stream_info' = r.v /\ pc' = "header_size" /\ UNCHANGED result
            ELSE Return(r) /\ UNCHANGED stream_info
    /\ UNCHANGED <<data, encoded, pos, header_fields, stream_state, chunk_state,
                   name_offsets>>

--------------------------------------------------------------------------
(* Header::parse: header size and name table                               *)

\* mutant: the base header size left out
HeaderSizeNoBase == stream_headers_size

\* header_size = base_header_size + stream_headers_size as usize
HeaderSize == BaseHeaderSize(version) + stream_headers_size

\* reader.advance_to(header_size), then the branch on name_table_size
AdvanceHeaderSize ==
    /\ pc = "header_size"
    /\ IF CanAdvanceTo(HeaderSize)
       THEN /\ pos' = HeaderSize
            /\ index' = 0
            /\ IF name_table_size # 0
               THEN pc' = "name_offsets" /\ UNCHANGED result
               ELSE Return(OkHeader(stream_info))
       ELSE \E p \in FailedAdvancePositions(HeaderSize) :
              /\ pos' = p
              /\ Return(HeaderError([name |-> "WrongHeaderSize",
                                     expected |-> HeaderSize, actual |-> p]))
              /\ UNCHANGED index
    /\ UNCHANGED <<data, encoded, header_fields, stream_header, stream_headers,
                   chunk_state, name_state>>

\* name_offsets.push(name_table_size)
WithSentinel(offsets) == Append(offsets, name_table_size)

\* one iteration of the name-offset loop; name_table_size pushed after the last
ReadNameOffset ==
    /\ pc = "name_offsets"
    /\ IF ~CanRead(4)
       THEN /\ Return(NameError(index, K("NameOffset")))
            /\ UNCHANGED <<pos, index, name_offsets>>
       ELSE /\ pos' = pos + 4
            /\ IF index + 1 < num_streams
               THEN /\ name_offsets' = Append(name_offsets, LeU32(Peek(4)))
                    /\ index' = index + 1
                    /\ pc' = "name_offsets"
               ELSE /\ name_offsets' =
                          WithSentinel(Append(name_offsets, LeU32(Peek(4))))
                    /\ index' = 0
                    /\ pc' = "names"
            /\ UNCHANGED result
    /\ UNCHANGED <<data, encoded, header_fields, stream_header, stream_headers,
                   chunk_state, stream_info>>

\* one iteration of read_stream_names: what it returns or the name it
\* assigns, and the bytes take_len has consumed by then
StreamNameOutcome(overflow_checks) ==
    LET lo == name_offsets[index + 1]
        hi == name_offsets[index + 2]
        Err(r, read) == [tag |-> "Return", r |-> r, read |-> read]
    IN IF hi < lo
       THEN IF overflow_checks THEN Err(Panic, 0)
            \* the wrapped length is at least 2^31: more than any input holds
            ELSE Err(NameError(index, K("Name")), 0)
       ELSE IF ~CanRead(hi - lo) THEN Err(NameError(index, K("Name")), 0)
       ELSE LET name_bytes == Peek(hi - lo)
            IN IF ~CStrFromBytesWithNul(name_bytes)
               THEN Err(NameError(index, K("Cstr")), hi - lo)
               ELSE LET text == SubSeq(name_bytes, 1, Len(name_bytes) - 1)
                    IN IF ~Utf8Valid(text)
                       THEN Err(NameError(index, K("Utf8")), hi - lo)
                       ELSE [tag |-> "Ok", name |-> text, read |-> hi - lo]

ReadStreamName ==
    /\ pc = "names"
    /\ \E overflow_checks \in BOOLEAN :
         LET o == StreamNameOutcome(overflow_checks)
         IN /\ pos' = pos + o.read
            /\ IF o.tag = "Ok"
               THEN LET infos == [stream_info EXCEPT
                                    ![index + 1].name = Some(o.name)]
                    IN /\ stream_info' = infos
                       /\ index' = index + 1
                       /\ IF index + 2 < Len(name_offsets)
                          THEN pc' = "names" /\ UNCHANGED result
                          ELSE Return(OkHeader(infos))
               ELSE Return(o.r) /\ UNCHANGED <<index, stream_info>>
    /\ UNCHANGED <<data, encoded, header_fields, stream_header, stream_headers,
                   chunk_state, name_offsets>>

--------------------------------------------------------------------------
(* encode: the codec dispatch on a stream of the parsed Header             *)

\* what vorbis::encode returns
VorbisEncodeResults ==
    {[tag |-> "Ok"], [tag |-> "Err", family |-> "Encode"]}

\* encode(codec, info, source, sink) for a stream of the Header that
\* Header::parse returned, on the same Reader: Codec::Vorbis goes to
\* vorbis::encode, which reads on from the cursor; every other codec is
\* todo!()
Encode ==
    /\ pc = "done"
    /\ result.tag = "Ok"
    /\ \E i \in 1..Len(result.stream_info) :
          IF result.codec = 15
          THEN /\ \E r \in VorbisEncodeResults :
                    encoded' = [stream |-> i - 1, outcome |-> r]
               /\ pos' \in pos..Len(data)
          ELSE /\ encoded' = [stream |-> i - 1, outcome |-> Panic]
               /\ UNCHANGED pos
    /\ pc' = "encoded"
    /\ UNCHANGED <<data, header_fields, stream_state, chunk_state,
                   name_state, result>>

Next ==
    \/ ReadMagic
    \/ ReadVersion
    \/ ReadStreamCount
    \/ ReadStreamHeadersSize
    \/ ReadNameTableSize
    \/ ReadTotalStreamSize
    \/ ReadCodec
    \/ AdvanceMetadata
    \/ AllocStreamHeaders
    \/ ReadStreamHeader
    \/ ReadChunkFlag
    \/ ReadChunkPayload
    \/ AdvanceChunk
    \/ PushStream
    \/ DeriveSizes
    \/ AdvanceHeaderSize
    \/ ReadNameOffset
    \/ ReadStreamName
    \/ Encode

--------------------------------------------------------------------------
(* The inputs: containers written field by field, then cut short           *)

Zeros(n) == [i \in 1..n |-> 0]

Prefix(b, n) == SubSeq(b, 1, IF n < Len(b) THEN n ELSE Len(b))

\* the input without its last `cut` bytes
CutEnd(b, cut) == SubSeq(b, 1, IF cut < Len(b) THEN Len(b) - cut ELSE 0)

RECURSIVE Concat(_)
Concat(ss) == IF ss = <<>> THEN <<>> ELSE Head(ss) \o Concat(Tail(ss))

\* u32::to_le_bytes
Le32(n) == <<n % 256, (n \div 256) % 256, (n \div 65536) % 256,
             (n \div 16777216) % 256>>

\* i16::to_be_bytes
Be16(x) == LET u == IF x < 0 THEN x + 65536 ELSE x IN <<u \div 256, u % 256>>

BitsOf(n, width) == [i \in 1..width |-> (n \div Pow2(i - 1)) % 2]

ByteOfBits(bits) ==
    bits[1] + 2 * bits[2] + 4 * bits[3] + 8 * bits[4] + 16 * bits[5]
        + 32 * bits[6] + 64 * bits[7] + 128 * bits[8]

BytesOfBits(bits) ==
    [i \in 1..(Len(bits) \div 8) |-> ByteOfBits(SubSeq(bits, 8 * i - 7, 8 * i))]

\* the 64-bit stream word with the given fields, as written to the file
StreamWord(has_chunks, sample_rate, channels, data_offset, num_samples) ==
    BytesOfBits(<<has_chunks>> \o BitsOf(sample_rate, 4) \o BitsOf(channels, 2)
                \o BitsOf(data_offset, 27) \o BitsOf(num_samples, 30))

\* the 32-bit chunk flag word with the given fields, as written to the file
ChunkWord(more_chunks, size, kind) ==
    BytesOfBits(<<more_chunks>> \o BitsOf(size, 24) \o BitsOf(kind, 7))

FixedHeader(magic, ver, n, shs, nts, tss, cdc) ==
    magic \o Le32(ver) \o Le32(n) \o Le32(shs) \o Le32(nts) \o Le32(tss)
          \o Le32(cdc)

\* the bytes between the codec field and the first stream word, as the format
\* lays them out
MetadataLen(ver) == IF ver = 0 THEN 36 ELSE 32

\* a container: fixed header, metadata, stream header table, name table
Container(ver, n, table, shs, nts, tss, names) ==
    FixedHeader(FSB5_MAGIC, ver, n, shs, nts, tss, 15)
        \o Zeros(MetadataLen(ver)) \o table \o names

\* a chunk as written: a template [kind, size, payload] and its more-bit
ChunkBytes(t, more) == ChunkWord(more, t.size, t.kind) \o t.payload

\* a chunk list whose chunk number `stop` is the first with the more-bit clear
ChunkListBytes(ts, stop) ==
    Concat([i \in 1..Len(ts) |-> ChunkBytes(ts[i], IF i = stop THEN 0 ELSE 1)])

Tmpl(kind, size, payload) == [kind |-> kind, size |-> size, payload |-> payload]

\* a chunk of `kind` whose body is `body`, declared with `delta` bytes more
\* or fewer than the body; declared bytes beyond the body are present as zeros
Sized(kind, body, delta) ==
    Tmpl(kind, Len(body) + delta, body \o Zeros(IF delta > 0 THEN delta ELSE 0))

\* 46 bytes of one channel's coefficients: sixteen times x, then padding
DspBody(x) == Concat([i \in 1..16 |-> Be16(x)]) \o Zeros(14)

\* a complete one-stream container: one Channels chunk and a name table
CoreInputs ==
    LET table == StreamWord(1, 8, 0, 0, 1) \o ChunkBytes(Sized(1, <<2>>, 0), 0)
        names == Le32(4) \o <<65, 0>>
    IN {Container(1, 1, table, Len(table), Len(names), 32, names)}

\* fixed headers with every field good or bad independently, cut at every
\* length up to the end of the codec field
FixedHeaderInputs ==
    {Prefix(FixedHeader(magic, ver, n, 8, 0, tss, cdc), len) :
        magic \in {FSB5_MAGIC, <<97, 98, 99, 100>>},
        ver \in {0, 1, 2, 255},
        n \in {0, 1},
        tss \in {0, 32},
        cdc \in {0, 1, 17, 18},
        len \in 0..28}

\* valid fixed headers of either version followed by zero bytes and a stream
\* word, cut at every length from the end of the codec field on
MetadataInputs ==
    {Prefix(FixedHeader(FSB5_MAGIC, ver, 1, 8, 0, 32, 1) \o Zeros(pad)
                \o StreamWord(0, 8, 1, 0, 1), len) :
        ver \in {0, 1}, pad \in {32, 36}, len \in 28..72}

\* the inputs of test::read_metadata: every count and size of the fixed
\* header is 0x30303030, followed by zero bytes
HugeCountInputs ==
    {FixedHeader(FSB5_MAGIC, ver, 808464432, 808464432, 808464432,
                 808464432, 1) \o Zeros(pad) :
        ver \in {0, 1}, pad \in {32, 36}}

HeaderInputs ==
    FixedHeaderInputs \cup MetadataInputs \cup HugeCountInputs \cup CoreInputs

\* one-stream containers whose stream word takes every sample-rate code and
\* channel code, both has-chunks bits, and small and extreme offsets and
\* sample counts; the declared total stream-data size is the largest below
\* 2^31 and the input ends after the word
StreamWordInputs ==
    {Container(1, 1, StreamWord(h, sr, ch, off, ns), 8, 0,
               2147483647, <<>>) :
        h \in {0, 1}, sr \in 0..15, ch \in 0..3,
        off \in 0..MaxOffsetUnit \cup {67108863},
        ns \in {0, 1, 1073741823}}

\* the stream words of n chunkless streams with the given offsets
RECURSIVE StreamTable(_)
StreamTable(offs) ==
    IF offs = <<>> THEN <<>>
    ELSE StreamWord(0, 8, 1, Head(offs), 1) \o StreamTable(Tail(offs))

\* containers of 1..MaxStreams chunkless streams with every choice of data
\* offsets, a declared table size below, at and above the table's length,
\* and an input that ends at or after the table
StreamTableInputs ==
    UNION {
        {CutEnd(Container(1, n, StreamTable(offs), 8 * n + d, 0, 32 * t,
                          Zeros(4)), cut) :
            offs \in [1..n -> 0..MaxOffsetUnit],
            d \in {-8, 0, 4}, t \in {1, 2}, cut \in {0, 1, 4, 5}} :
        n \in 1..MaxStreams}

StreamInputs == StreamWordInputs \cup StreamTableInputs \cup CoreInputs

\* the stream table of streams with has-chunks set, one data offset unit
\* apart, each followed by its chunk list
RECURSIVE ChunkedTable(_, _)
ChunkedTable(lists, i) ==
    IF i > Len(lists) THEN <<>>
    ELSE StreamWord(1, 8, lists[i].channels, i - 1, 1) \o lists[i].bytes
            \o ChunkedTable(lists, i + 1)

\* the container of streams with the given chunk lists; the declared sizes
\* are those of the bytes written
ChunkedContainer(lists) ==
    Container(1, Len(lists), ChunkedTable(lists, 1),
              Len(ChunkedTable(lists, 1)), 0, 32 * Len(lists), <<>>)

OneList(channels, bytes) == <<[channels |-> channels, bytes |-> bytes]>>

\* one-stream containers whose first chunk has every kind code, both
\* more-bits, and small and extreme sizes; the input ends after the flag word
KindInputs ==
    {ChunkedContainer(OneList(0, ChunkWord(more, size, kind))) :
        kind \in 0..127, more \in {0, 1}, size \in {0, 1, 16777215}}

\* bodies of the kinds with a fixed payload read, for a one-channel stream
FixedBodies ==
    {<<1, <<2>>>>, <<1, <<0>>>>,
     <<2, Le32(48000)>>, <<2, Le32(0)>>,
     <<3, Le32(1) \o Le32(5)>>, <<3, Le32(3) \o Le32(3)>>,
     <<3, Le32(5) \o Le32(1)>>,
     <<14, Le32(0)>>, <<14, Le32(1)>>, <<14, Le32(2)>>, <<14, Le32(256)>>,
     <<7, DspBody(1)>>, <<7, DspBody(-3)>>, <<7, DspBody(4000)>>}

\* bodies for a two-channel stream (channel code 1)
FixedBodies2 ==
    {<<14, Le32(2)>>, <<14, Le32(200)>>, <<7, DspBody(1) \o DspBody(-3)>>}

\* a terminal Comment chunk of no bytes
EndChunk == ChunkBytes(Tmpl(4, 0, <<>>), 0)

\* one-stream containers with one chunk of a fixed-payload kind declared one
\* byte short, exact, or one byte long, followed by a terminal chunk; cut to
\* end after the terminal chunk, before it, and inside the first chunk
SizedInputs ==
    {CutEnd(ChunkedContainer(OneList(b[1],
                ChunkBytes(Sized(b[2][1], b[2][2], delta), more) \o EndChunk)),
            cut) :
        b \in ({0} \X FixedBodies) \cup ({1} \X FixedBodies2),
        delta \in {-1, 0, 1}, more \in {0, 1}, cut \in {0, 4, 5, 6}}

\* chunks declared with their exact size, for chunk lists
ListTemplates ==
    {Sized(1, <<2>>, 0), Sized(4, <<7, 7>>, 0), Sized(14, Le32(2), 0),
     Sized(3, Le32(1) \o Le32(5), 0), Sized(7, DspBody(1), 0),
     Sized(7, DspBody(1) \o DspBody(-3), 0)}

\* one-stream containers with every chunk list of 1..MaxChunks such chunks
\* and every position of the first clear more-bit
ListInputs ==
    UNION {
        {ChunkedContainer(OneList(0, ChunkListBytes(ts, stop))) :
            ts \in [1..k -> ListTemplates], stop \in 1..k} :
        k \in 1..MaxChunks}

\* a list of k Comment chunks of two bytes, the last with the more-bit clear
CommentList(k) ==
    [channels |-> 0,
     bytes |-> ChunkListBytes([i \in 1..k |-> Sized(4, <<7, 7>>, 0)], k)]

\* containers of 1..MaxStreams streams, each with a list of 1..MaxChunks
\* chunks, cut at every length back to the first stream's first flag word
MultiStreamInputs ==
    UNION {
        {CutEnd(ChunkedContainer([i \in 1..n |-> CommentList(ks[i])]), cut) :
            ks \in [1..n -> 1..MaxChunks],
            cut \in 0..(n * (8 + 6 * MaxChunks) - 8)} :
        n \in 1..MaxStreams}

ChunkInputs ==
    KindInputs \cup SizedInputs \cup ListInputs \cup MultiStreamInputs
        \cup CoreInputs

NameAlphabet == {0, 65, 195, 169}

\* every byte string of at most MaxNameLen bytes over the alphabet
NameBytes == UNION {[1..k -> NameAlphabet] : k \in 0..MaxNameLen}

\* names of the streams of a multi-stream container
ShortNames == {<<0>>, <<65, 0>>, <<65>>}

\* the name offsets of names written one after another behind a table of n
\* offsets
RECURSIVE NameOffsetsOf(_, _)
NameOffsetsOf(names, at) ==
    IF names = <<>> THEN <<>>
    ELSE <<at>> \o NameOffsetsOf(Tail(names), at + Len(Head(names)))

Reverse(q) == [i \in 1..Len(q) |-> q[Len(q) + 1 - i]]

\* a container of chunkless streams with the given names; nts is the
\* declared name-table size (0: the size of the bytes written)
NamedContainer(names, nts, rev) ==
    LET n == Len(names)
        offs == NameOffsetsOf(names, 4 * n)
        blob == Concat([i \in 1..n |->
                          Le32((IF rev THEN Reverse(offs) ELSE offs)[i])])
                    \o Concat(names)
    IN Container(1, n, StreamTable([i \in 1..n |-> i - 1]), 8 * n,
                 IF nts = 0 THEN Len(blob) ELSE nts, 32 * n, blob)

\* one-stream containers with every name, and containers of 2..MaxStreams
\* streams with short names in order or with reversed offsets; the declared
\* name-table size is exact, 1, or (written as 0) absent; cut short
NameInputs ==
    {CutEnd(NamedContainer(<<name>>, nts, FALSE), cut) :
        name \in NameBytes, nts \in {0, 1}, cut \in {0, 1, 2, 5}}
    \cup
    {Container(1, 1, StreamTable(<<0>>), 8, 0, 32, Le32(4) \o name) :
        name \in NameBytes}
    \cup
    UNION {
        {CutEnd(NamedContainer(names, nts, rev), cut) :
            names \in [1..n -> ShortNames], nts \in {0, 1},
            rev \in BOOLEAN, cut \in 0..(4 * n + 2)} :
        n \in 2..MaxStreams}
    \cup CoreInputs

Inputs == HeaderInputs \cup StreamInputs \cup ChunkInputs \cup NameInputs

InitFrom(inputs) ==
    /\ data \in inputs
    /\ pos = 0
    /\ pc = "magic"
    /\ version = "none"
    /\ num_streams = 0
    /\ stream_headers_size = 0
    /\ name_table_size = 0
    /\ total_stream_size = 0
    /\ codec = 0
    /\ index = 0
    /\ stream_header = <<>>
    /\ stream_headers = <<>>
    /\ chunk_index = 0
    /\ chunk = <<>>
    /\ start_position = 0
    /\ stream_info = <<>>
    /\ name_offsets = <<>>
    /\ flags_read = <<>>
    /\ result = NoResult
    /\ encoded = NoResult

Init == InitFrom(Inputs)

Spec == Init /\ [][Next]_vars

\* the parse of the fixed header and the metadata step
InitHeader == InitFrom(HeaderInputs)

SpecHeader == InitHeader /\ [][Next]_vars

\* the parse of the stream header table
InitStreams == InitFrom(StreamInputs)

SpecStreams == InitStreams /\ [][Next]_vars

\* the parse of the chunk lists
InitChunks == InitFrom(ChunkInputs)

SpecChunks == InitChunks /\ [][Next]_vars

\* the parse of the name table
InitNames == InitFrom(NameInputs)

SpecNames == InitNames /\ [][Next]_vars

--------------------------------------------------------------------------
(* Properties                                                              *)

Done == pc = "done"

\* the little-endian 32-bit field at byte offset off of the input
FieldAt(off) ==
    data[off + 1] + 256 * data[off + 2] + 65536 * data[off + 3]
        + 16777216 * data[off + 4]

\* the first failing step of the fixed header, read off the input alone;
\* K("none") when every step of the fixed header passes
FirstFixedHeaderFailure ==
    IF Len(data) < 4 \/ SubSeq(data, 1, 4) # <<70, 83, 66, 53>> THEN K("Magic")
    ELSE IF Len(data) < 8 THEN K("Version")
    ELSE IF FieldAt(4) \notin {0, 1}
    THEN [name |-> "UnknownVersion", version |-> FieldAt(4)]
    ELSE IF Len(data) < 12 THEN K("StreamCount")
    ELSE IF FieldAt(8) = 0 THEN K("ZeroStreams")
    ELSE IF Len(data) < 16 THEN K("StreamHeadersSize")
    ELSE IF Len(data) < 20 THEN K("NameTableSize")
    ELSE IF Len(data) < 24 THEN K("TotalStreamSize")
    ELSE IF FieldAt(20) = 0 THEN K("ZeroTotalStreamSize")
    ELSE IF Len(data) < 28 THEN K("Codec")
    ELSE IF FieldAt(24) \notin 1..17
    THEN [name |-> "UnknownCodec", flag |-> FieldAt(24)]
    ELSE IF Len(data) < (IF FieldAt(4) = 0 THEN 64 ELSE 60) THEN K("Metadata")
    ELSE K("none")

FixedHeaderKinds ==
    {"Magic", "Version", "UnknownVersion", "StreamCount", "ZeroStreams",
     "StreamHeadersSize", "NameTableSize", "TotalStreamSize",
     "ZeroTotalStreamSize", "Codec", "UnknownCodec", "Metadata"}

IsFixedHeaderError(r) ==
    r.tag = "Err" /\ r.family = "Header" /\ r.kind.name \in FixedHeaderKinds

\* C1: Header::parse reports the error of the first failing step of the
\* fixed header, in the order Magic, Version, UnknownVersion{version},
\* StreamCount, ZeroStreams, StreamHeadersSize, NameTableSize,
\* TotalStreamSize, ZeroTotalStreamSize, Codec, UnknownCodec{flag}, Metadata:
\* a truncation at the start of or inside a field whose predecessors are valid
\* yields that field's read error, a value rejection is reported even when
\* the input ends right after the field, and no such error is reported when
\* no step of the fixed header fails.
C1_FirstFailingStep ==
    Done =>
        IF FirstFixedHeaderFailure = K("none")
        THEN ~IsFixedHeaderError(result)
        ELSE result = HeaderError(FirstFixedHeaderFailure)

\* C1 witness: the codec code 18 is rejected with the input ending right
\* after the codec field
C1_Witness ==
    /\ Done
    /\ Len(data) = 28
    /\ result = HeaderError([name |-> "UnknownCodec", flag |-> 18])

\* the offset the format gives the first stream word, read off the input
BaseOffset == IF FieldAt(4) = 0 THEN 64 ELSE 60

\* the codec field was accepted
CodecAccepted == codec # 0

\* C2: after the codec field is accepted the cursor is advanced to absolute
\* offset 64 for V0 and 60 for V1; an input shorter than that offset yields
\* a Metadata error, and otherwise the first stream word is read starting
\* exactly at that offset (an input that ends inside it is a StreamInfo read
\* error of stream 0). The outcomes are those of a process that was given
\* the memory for its stream vectors.
C2_MetadataOffset ==
    /\ (pc \in {"alloc_streams", "stream_header"} /\ index = 0)
          => pos = BaseOffset
    /\ (Done /\ CodecAccepted /\ result # Abort) =>
          /\ (result = HeaderError(K("Metadata"))) <=> (Len(data) < BaseOffset)
          /\ (Len(data) >= BaseOffset /\ Len(data) < BaseOffset + 8)
                => result = StreamError(0, K("StreamInfo"))
    /\ (pc \in {"chunk_flag", "push_stream"} /\ index = 0 /\ flags_read = <<>>)
          => pos = BaseOffset + 8

\* C2 witness: a version-0 input whose first stream word is about to be read
\* at offset 64
C2_Witness ==
    pc = "stream_header" /\ index = 0 /\ version = "V0" /\ pos = 64

\* C3 (as the tests state it): with a valid 28-byte fixed header prefix, a
\* version-1 input of 60 bytes fails with Metadata, a version-1 input of 64
\* bytes fails with the StreamInfo read error, and a version-0 input of 60
\* bytes fails with the StreamInfo read error.
C3_TestExpectations ==
    (Done /\ FirstFixedHeaderFailure \in {K("none"), K("Metadata")}) =>
        /\ (FieldAt(4) = 1 /\ Len(data) = 60)
              => result = HeaderError(K("Metadata"))
        /\ (FieldAt(4) = 1 /\ Len(data) = 64)
              => (result.tag = "Err" /\ result.family = "Stream"
                  /\ result.kind = K("StreamInfo"))
        /\ (FieldAt(4) = 0 /\ Len(data) = 60)
              => (result.tag = "Err" /\ result.family = "Stream"
                  /\ result.kind = K("StreamInfo"))

--------------------------------------------------------------------------

\* bit k (0 = least significant) of the little-endian word that starts at
\* byte offset off of the input
WordBit(off, k) == (data[off + 1 + (k \div 8)] \div (2 ^ (k % 8))) % 2

RECURSIVE WordField(_, _, _)
WordField(off, lo, width) ==
    IF width = 0 THEN 0
    ELSE WordField(off, lo, width - 1)
            + WordBit(off, lo + width - 1) * (2 ^ (width - 1))

SampleRateTable ==
    <<4000, 8000, 11000, 11025, 16000, 22050, 24000, 32000, 44100, 48000, 96000>>

ChannelTable == <<1, 2, 6, 8>>

\* the state right after a stream word was decoded
AfterStreamWord ==
    \/ pc = "chunk_flag" /\ chunk_index = 0
    \/ pc = "push_stream" /\ ~stream_header.has_chunks

\* C4: for every 64-bit stream word, decoding yields has_chunks = bit 0, the
\* sample rate of the table applied to bits 1-4, the channels of the table
\* applied to bits 5-6, data_offset = bits 7-33 times 32, num_samples = bits
\* 34-63, no loop and no DSP coefficients; a sample-rate code 11..15 yields
\* UnknownSampleRate{flag} with the stream index, checked before the sample
\* count, and a zero sample count yields ZeroSamples with the stream index.
C4_StreamWord ==
    /\ AfterStreamWord =>
          LET w == pos - 8
          IN /\ WordField(w, 1, 4) <= 10
             /\ WordField(w, 34, 30) # 0
             /\ stream_header =
                   [has_chunks |-> WordBit(w, 0) = 1,
                    sample_rate |-> SampleRateTable[WordField(w, 1, 4) + 1],
                    channels |-> ChannelTable[WordField(w, 5, 2) + 1],
                    data_offset |-> WordField(w, 7, 27) * 32,
                    num_samples |-> WordField(w, 34, 30),
                    stream_loop |-> <<>>,
                    dsp_coeffs |-> <<>>]
    /\ (Done /\ pc = "done" /\ result.tag = "Err" /\ result.family = "Stream"
          /\ result.kind # K("StreamInfo")) =>
          LET w == pos - 8
          IN IF WordField(w, 1, 4) >= 11
             THEN result = StreamError(index, [name |-> "UnknownSampleRate",
                                               flag |-> WordField(w, 1, 4)])
             ELSE /\ WordField(w, 34, 30) = 0
                  /\ result = StreamError(index, K("ZeroSamples"))

\* C4 witness: a word with sample-rate code 14 and sample count zero is
\* rejected for its sample rate
C4_Witness ==
    /\ Done
    /\ result = StreamError(0, [name |-> "UnknownSampleRate", flag |-> 14])
    /\ WordField(pos - 8, 34, 30) = 0

--------------------------------------------------------------------------

\* the difference the claim gives stream i (0-based) as its size
OffsetDifference(i) ==
    (IF i + 1 < Len(stream_headers)
     THEN stream_headers[i + 2].data_offset
     ELSE total_stream_size) - stream_headers[i + 1].data_offset

\* C8 (as stated): a returned Header holds exactly num_streams records, each
\* stream's size is the next stream's data offset (the total stream-data size
\* for the last) minus its own and is greater than zero, so the offsets are
\* non-decreasing; and when the first stream whose difference is zero is
\* stream i the result is ZeroStreamSize{index: i}.
C8_StreamSizes ==
    /\ (Done /\ result.tag = "Ok") =>
          /\ Len(result.stream_info) = num_streams
          /\ \A i \in 0..(num_streams - 1) :
                /\ OffsetDifference(i) > 0
                /\ result.stream_info[i + 1].size
                      = <<OffsetDifference(i) \div 65536,
                          OffsetDifference(i) % 65536>>
    /\ (Done /\ Len(stream_headers) = num_streams /\ num_streams > 0) =>
          \A i \in 0..(num_streams - 1) :
              (/\ OffsetDifference(i) = 0
               /\ \A j \in 0..(i - 1) : OffsetDifference(j) # 0)
              => result = HeaderError([name |-> "ZeroStreamSize", index |-> i])

--------------------------------------------------------------------------

\* the offset the declared table size gives the end of the stream headers
TableEnd == BaseOffset + FieldAt(12)

WrongHeaderSize(expected, actual) ==
    HeaderError([name |-> "WrongHeaderSize", expected |-> expected,
                 actual |-> actual])

\* C9: after all stream headers and chunk lists are parsed the cursor is
\* advanced to base header size + declared table size; if the input ends
\* before that offset or the cursor is already past it the result is
\* WrongHeaderSize{expected, actual} with expected that offset and actual the
\* cursor's position, and parsing goes on to the name table only with the
\* cursor exactly at that offset.
C9_HeaderSize ==
    [][pc = "header_size" =>
          IF Len(data) < TableEnd \/ pos > TableEnd
          THEN /\ pc' = "done"
               /\ result' = WrongHeaderSize(TableEnd, pos')
               /\ pos' \in {pos, Len(data)}
          ELSE /\ pos' = TableEnd
               /\ IF FieldAt(16) # 0
                  THEN pc' = "name_offsets" /\ result' = result
                  ELSE pc' = "done" /\ result'.tag = "Ok"]_vars

\* C9 witness: the stream headers consumed more than the declared table size
C9_Witness ==
    /\ Done
    /\ result.tag = "Err"
    /\ result.kind.name = "WrongHeaderSize"
    /\ result.kind.actual > result.kind.expected
    /\ result.kind.actual = pos

--------------------------------------------------------------------------

AcceptedKinds == {1, 2, 3, 4, 6, 7, 9, 10, 11, 13, 14, 15}

\* C5: for every 32-bit chunk flag word, more_chunks = bit 0, size = bits
\* 1-24, kind code = bits 25-31; the kind is accepted exactly when it is one
\* of 1, 2, 3, 4, 6, 7, 9, 10, 11, 13, 14, 15, and every other code fails
\* with UnknownType{flag: code} carrying the chunk index (through
\* Header::parse, the chunk-level kind of the error): an unknown kind is never
\* skipped.
C5_ChunkFlagWord ==
    [][(pc = "chunk_flag" /\ Len(data) - pos >= 4) =>
          IF WordField(pos, 25, 7) \in AcceptedKinds
          THEN /\ pc' = "chunk_payload"
               /\ pos' = pos + 4
               /\ chunk'.more_chunks = (WordBit(pos, 0) = 1)
               /\ chunk'.size = WordField(pos, 1, 24)
          ELSE /\ pc' = "done"
               /\ result' = ChunkError(index, chunk_index,
                                [name |-> "UnknownType",
                                 flag |-> WordField(pos, 25, 7)])]_vars

\* C5 witness: the first chunk of a stream has kind code 127 and the parse
\* fails with UnknownType{flag: 127}
C5_Witness ==
    /\ Done
    /\ result = ChunkError(0, 0, [name |-> "UnknownType", flag |-> 127])

--------------------------------------------------------------------------

\* the flag words read for stream s, in the order read
FlagsOf(s) == SelectSeq(flags_read, LAMBDA e : e.stream = s)

\* what holds of the flag words read so far
ChunkWalk ==
    /\ \A s \in 0..index :
          /\ \A k \in 1..Len(FlagsOf(s)) : FlagsOf(s)[k].chunk = k - 1
          /\ \A k \in 1..(Len(FlagsOf(s)) - 1) : FlagsOf(s)[k].more
    /\ \A s \in 1..Len(stream_headers) :
          /\ (FlagsOf(s - 1) # <<>>) <=> stream_headers[s].has_chunks
          /\ FlagsOf(s - 1) # <<>>
                => ~FlagsOf(s - 1)[Len(FlagsOf(s - 1))].more
    /\ (Done /\ result.tag = "Err" /\ result.family = "Chunk") =>
          /\ result.stream = index
          /\ result.chunk = IF result.kind = K("Flag")
                            THEN Len(FlagsOf(index))
                            ELSE Len(FlagsOf(index)) - 1

\* C6: the chunk walker runs for a stream iff its bitfield has has-chunks
\* set; it reads chunks one after another, stops successfully right after the
\* first chunk whose more-chunks bit is clear and reads no further flag word;
\* the chunk index of a chunk error is the 0-based position of the chunk in
\* its own stream, restarting at 0 for every stream; and if the input ends
\* where a flag word is expected the result is the chunk-level Flag error.
C6_ChunkWalker ==
    [][/\ ChunkWalk'
       /\ (pc = "chunk_flag" /\ Len(data) - pos < 4)
             => result' = ChunkError(index, Len(FlagsOf(index)), K("Flag"))
       /\ (pc = "stream_header" /\ pc' = "chunk_flag")
             => WordBit(pos, 0) = 1
       /\ (pc = "stream_header" /\ pc' = "push_stream")
             => WordBit(pos, 0) = 0]_vars

\* C6 witness: a parse that succeeded having read one flag word, with the
\* more-bit clear, although more bytes of the stream header table followed
\* that chunk
C6_Witness ==
    /\ Done
    /\ result.tag = "Ok"
    /\ Len(flags_read) = 1
    /\ ~flags_read[1].more
    /\ pos > start_position + chunk.size

--------------------------------------------------------------------------

FixedPayloadKinds ==
    {"Channels", "SampleRate", "Loop", "VorbisIntraLayers", "DspCoefficients"}

\* the bytes the claim gives the processing of a chunk of a fixed-payload kind
FixedPayloadRead(kind) ==
    CASE kind = "Channels" -> 1
      [] kind = "SampleRate" -> 4
      [] kind = "Loop" -> 8
      [] kind = "VorbisIntraLayers" -> 4
      [] kind = "DspCoefficients" -> 46 * stream_header.channels

\* the declared size of the current chunk, read off its flag word
DeclaredSize == WordField(start_position - 4, 1, 24)

WrongChunkSize(expected, actual) ==
    ChunkError(index, chunk_index,
               [name |-> "WrongChunkSize", expected |-> expected,
                actual |-> actual])

\* C7 (as stated): for a chunk of a fixed-payload kind, a declared size that
\* differs from the bytes its processing consumed, larger or smaller, fails
\* with WrongChunkSize{expected: declared, actual: consumed}; the parse
\* continues only with the cursor at payload start + declared size.
C7_AnyMismatchFails ==
    [][(pc = "chunk_advance" /\ chunk.kind \in FixedPayloadKinds) =>
          IF DeclaredSize # pos - start_position
          THEN /\ pc' = "done"
               /\ result' = WrongChunkSize(DeclaredSize, pos' - start_position)
          ELSE /\ pos' = start_position + DeclaredSize
               /\ result' = result]_vars

\* C7 (amended): for a chunk of a fixed-payload kind (Channels 1 byte,
\* SampleRate 4, Loop 8, VorbisIntraLayers 4, DspCoefficients 46 per
\* channel), a declared size smaller than the bytes consumed, or one that
\* ends beyond the input, fails with WrongChunkSize{expected: declared,
\* actual: cursor position - payload start}; a larger declared size within
\* the input is skipped over; the parse continues only with the cursor at
\* payload start + declared size.
C7_SizeMismatch ==
    [][(pc = "chunk_advance" /\ chunk.kind \in FixedPayloadKinds) =>
          /\ pos - start_position = FixedPayloadRead(chunk.kind)
          /\ IF DeclaredSize < pos - start_position
                \/ start_position + DeclaredSize > Len(data)
             THEN /\ pc' = "done"
                  /\ result' = WrongChunkSize(DeclaredSize,
                                              pos' - start_position)
                  /\ DeclaredSize < pos - start_position => pos' = pos
             ELSE /\ pos' = start_position + DeclaredSize
                  /\ result' = result
                  /\ pc' \in {"chunk_flag", "push_stream"}]_vars

\* C7 witness: a Loop chunk declared with 7 bytes, of which the processing
\* consumed 8
C7_Witness ==
    /\ Done
    /\ result = ChunkError(0, 0, [name |-> "WrongChunkSize", expected |-> 7,
                                  actual |-> 8])
    /\ chunk.kind = "Loop"

--------------------------------------------------------------------------

\* the input's name offsets: offset i (0-based) of the table behind the
\* stream headers, and the declared name-table size as the last
NameOffsetAt(i) ==
    IF i < FieldAt(8) THEN FieldAt(TableEnd + 4 * i) ELSE FieldAt(16)

NameLenAt(i) == NameOffsetAt(i + 1) - NameOffsetAt(i)

\* where the claim has the bytes of stream i's name start (a difference
\* below zero is, as a u32, a length no input holds: a short read)
RECURSIVE NameStartAt(_)
NameStartAt(i) ==
    IF i = 0 THEN TableEnd + 4 * FieldAt(8)
    ELSE NameStartAt(i - 1) + NameLenAt(i - 1)

NameBytesAt(i) == SubSeq(data, NameStartAt(i) + 1, NameStartAt(i) + NameLenAt(i))

\* terminated by exactly one NUL, its last byte
OneNulLast(b) ==
    /\ b # <<>>
    /\ b[Len(b)] = 0
    /\ Cardinality({k \in 1..Len(b) : b[k] = 0}) = 1

\* well-formed UTF-8 of at most three bytes per character (the inputs hold no
\* byte that starts a longer one)
RECURSIVE WellFormedUtf8(_)
WellFormedUtf8(b) ==
    \/ b = <<>>
    \/ b[1] < 128 /\ WellFormedUtf8(Tail(b))
    \/ /\ Len(b) >= 2
       /\ b[1] \in 194..223
       /\ b[2] \in 128..191
       /\ WellFormedUtf8(Tail(Tail(b)))

\* the outcome the claim gives the name table from stream i on, the names of
\* the streams before it being `names`
RECURSIVE NamesFrom(_, _)
NamesFrom(i, names) ==
    IF i = FieldAt(8) THEN [tag |-> "Ok", names |-> names]
    ELSE IF NameLenAt(i) < 0 \/ Len(data) < NameStartAt(i) + NameLenAt(i)
    THEN NameError(i, K("Name"))
    ELSE IF ~OneNulLast(NameBytesAt(i)) THEN NameError(i, K("Cstr"))
    ELSE IF ~WellFormedUtf8(SubSeq(NameBytesAt(i), 1, NameLenAt(i) - 1))
    THEN NameError(i, K("Utf8"))
    ELSE NamesFrom(i + 1,
                   Append(names, SubSeq(NameBytesAt(i), 1, NameLenAt(i) - 1)))

\* the first stream whose name offset the input is too short for
ShortNameOffsets == {i \in 0..(FieldAt(8) - 1) : Len(data) < TableEnd + 4 * i + 4}

Min(S) == CHOOSE x \in S : \A y \in S : x <= y

\* stream header table parsed and skipped: the name table is next
ReachedNameTable ==
    /\ Done
    /\ stream_info # <<>>
    /\ ~(result.tag = "Err" /\ result.family = "Header")

\* C10 (as stated): with a declared name-table size of zero nothing is read
\* and every returned record has no name, without error; otherwise
\* num_streams offsets are read (short read at stream i: NameOffset i), the
\* name-table size is appended, and for each stream i in order exactly
\* offset[i+1] - offset[i] bytes are read (short read: Name i), required to
\* end in exactly one NUL (else Cstr i) and to be UTF-8 (else Utf8 i), and
\* assigned to stream i's name; on success every record has a name.
C10_NameTable ==
    ReachedNameTable =>
        IF FieldAt(16) = 0
        THEN /\ result.tag = "Ok"
             /\ pos = TableEnd
             /\ \A i \in 1..Len(result.stream_info) :
                   result.stream_info[i].name = <<>>
        ELSE IF ShortNameOffsets # {}
        THEN result = NameError(Min(ShortNameOffsets), K("NameOffset"))
        ELSE IF NamesFrom(0, <<>>).tag = "Ok"
        THEN /\ result.tag = "Ok"
             /\ Len(result.stream_info) = FieldAt(8)
             /\ \A i \in 1..Len(result.stream_info) :
                   result.stream_info[i].name = <<NamesFrom(0, <<>>).names[i]>>
        ELSE result = NamesFrom(0, <<>>)

--------------------------------------------------------------------------

\* the kind code of the current chunk, read off its flag word
KindCode == WordField(start_position - 4, 25, 7)

\* the steps that work on the stream header of the stream being parsed
InChunkList == pc \in {"chunk_flag", "chunk_payload", "chunk_advance"}

\* a record's loop comes from a Loop chunk of its own chunk list: the stream
\* header starts without one, only the arm of a Loop chunk changes it, and
\* the record carries what the stream header held
LoopOnlyFromLoopChunk ==
    /\ (pc = "stream_header" /\ pc' # "done")
          => stream_header'.stream_loop = <<>>
    /\ (InChunkList /\ stream_header'.stream_loop # stream_header.stream_loop)
          => (pc = "chunk_payload" /\ KindCode = 3)
    /\ pc = "push_stream"
          => stream_headers'[Len(stream_headers')].stream_loop
                = stream_header.stream_loop
    /\ (pc = "sizes" /\ pc' # "done")
          => \A i \in 1..Len(stream_info') :
                stream_info'[i].stream_loop = stream_headers[i].stream_loop

\* C11 (as stated): for a Loop chunk with 32-bit start and end read in that
\* order, start = end fails with ZeroLengthLoop carrying the chunk index;
\* otherwise, for every pair including end < start, the stream's loop is set
\* to Loop{start, len} with len = end - start and len > 0; a returned stream
\* record has a loop only if its chunk list held a Loop chunk.
C11_LoopChunk ==
    [][/\ (pc = "chunk_payload" /\ KindCode = 3 /\ Len(data) - pos >= 8) =>
             IF FieldAt(pos) = FieldAt(pos + 4)
             THEN /\ pc' = "done"
                  /\ result' = ChunkError(index, chunk_index,
                                          [name |-> "ZeroLengthLoop"])
             ELSE /\ pc' = "chunk_advance"
                  /\ FieldAt(pos + 4) - FieldAt(pos) > 0
                  /\ stream_header'.stream_loop =
                        <<[start |-> FieldAt(pos),
                           len |-> <<(FieldAt(pos + 4) - FieldAt(pos)) \div 65536,
                                     (FieldAt(pos + 4) - FieldAt(pos)) % 65536>>]>>
       /\ LoopOnlyFromLoopChunk]_vars

--------------------------------------------------------------------------

\* C12 (as stated): for a VorbisIntraLayers chunk with 32-bit layer count L
\* on a stream whose channel count is c, L > 255 fails with
\* TooManyVorbisLayers{layers: L}; otherwise a product c * L of zero fails
\* with ZeroVorbisLayers and any other product becomes the stream's channel
\* count: the channel count is never set to a nonzero value other than c * L.
C12_VorbisLayers ==
    [][(pc = "chunk_payload" /\ KindCode = 14 /\ Len(data) - pos >= 4) =>
          IF FieldAt(pos) > 255
          THEN /\ pc' = "done"
               /\ result' = ChunkError(index, chunk_index,
                                [name |-> "TooManyVorbisLayers",
                                 layers |-> FieldAt(pos)])
          ELSE IF stream_header.channels * FieldAt(pos) = 0
          THEN /\ pc' = "done"
               /\ result' = ChunkError(index, chunk_index,
                                       [name |-> "ZeroVorbisLayers"])
          ELSE /\ pc' = "chunk_advance"
               /\ stream_header'.channels
                     = stream_header.channels * FieldAt(pos)]_vars

--------------------------------------------------------------------------

\* C13 (as stated): in every Header returned by Header::parse, each stream
\* record that has DSP coefficients has exactly one coefficient per channel:
\* the number of coefficients equals the record's channel count, whatever the
\* order of the Channels, VorbisIntraLayers and DspCoefficients chunks of the
\* stream's chunk list.
C13_CoeffPerChannel ==
    (Done /\ result.tag = "Ok") =>
        \A i \in 1..Len(result.stream_info) :
            result.stream_info[i].dsp_coeffs # <<>>
                => Len(result.stream_info[i].dsp_coeffs[1])
                      = result.stream_info[i].channels

==========================================================================
